---- MODULE Spec2Model ----
(***************************************************************************)
(* The two NEAR contracts of loofta-payroll:                               *)
(*   PayrollAttestation   (contracts/payroll-attestation/src/lib.rs)       *)
(*   PayrollReceiptLogger (contracts/payroll-receipt-logger/src/lib.rs)    *)
(* A behaviour is the life of ONE deployed contract instance: Init is the  *)
(* state right after #[init] new(..), every step is one call (a panic      *)
(* leaves the contract state as it was) or the chain producing a block.    *)
(***************************************************************************)
EXTENDS Integers, Sequences, FiniteSets, TLC

VARIABLES
    contract,             \* which contract this instance is
    owner_id,             \* String
    allowed_caller,       \* Option<String>
    payments,             \* HashMap<String, PaymentAttestation>  (attestation only)
    receipts,             \* HashMap<String, ReceiptRecord / Receipt>
    used_receipt_nonces,  \* HashSet<String>            (attestation: "authorizer_id::nonce")
    used_nonces,          \* HashMap<(String, u64), ()> (receipt logger), as its key set
    block_timestamp,      \* env::block_timestamp()
    constructed_by,       \* env::predecessor_account_id() of the #[init] call
    logger                \* a PayrollReceiptLogger run side by side (SpecPair only)

vars == <<contract, owner_id, allowed_caller, payments, receipts,
          used_receipt_nonces, used_nonces, block_timestamp, constructed_by, logger>>

store == <<owner_id, allowed_caller, payments, receipts,
           used_receipt_nonces, used_nonces>>

----------------------------------------------------------------------------
(* Bounds and input sets *)

MaxTime == 2

CommitmentLen == 32

Contracts == {"PayrollAttestation", "PayrollReceiptLogger"}
Accounts == {"alice", "bob"}          \* env::predecessor_account_id(): never empty
ClaimIds == {"c1", "c2"}
ExecutionRefs == {"e1"}
PayrollIds == {"p1", "p2"}
BatchHashes == {"bh"}
Authorizers == {"a:", "a::1"}
Nonces == {1, 11}
Executors == {"exec1"}
Statuses == {"success"}
TxRefsHashes == {"th1"}
Times == 1..MaxTime

\* Option<T>
None == <<>>
Some(x) == <<x>>

\* a Vec<u8> of length n
Bytes(n, b) == [i \in 1..n |-> (b + i) % 256]
Commitments ==
    {Bytes(CommitmentLen, 0), Bytes(CommitmentLen, 7),
     Bytes(0, 0), Bytes(CommitmentLen - 1, 0), Bytes(CommitmentLen + 1, 0)}

\* the account_id argument of set_allowed_caller / PayrollReceiptLogger::new
CallerOptions == {None, Some("")} \cup {Some(a) : a \in Accounts}

----------------------------------------------------------------------------
(* Pure helpers *)

\* u64 -> decimal text, as format!("{}", nonce)
Digits == <<"0", "1", "2", "3", "4", "5", "6", "7", "8", "9">>
RECURSIVE ToDec(_)
ToDec(n) == IF n < 10 THEN Digits[n + 1]
            ELSE ToDec(n \div 10) \o Digits[(n % 10) + 1]

\* format!("{}::{}", authorizer_id, nonce)
\* faulty variant: the key without its separator
nonce_key_no_separator(authorizer_id, nonce) ==
    authorizer_id \o ToDec(nonce)

nonce_key(authorizer_id, nonce) == authorizer_id \o "::" \o ToDec(nonce)

\* faulty variant: the owner is let through as well as the allowed caller
CallerAllowed_or_owner(caller) ==
    allowed_caller = None \/ allowed_caller = Some(caller) \/ caller = owner_id

\* if let Some(ref allowed) = self.allowed_caller { assert_eq!(caller, *allowed) }
CallerAllowed(caller) ==
    allowed_caller = None \/ allowed_caller = Some(caller)

\* faulty variant: the last byte of the array is left at its default, 0
commitment_arr_short_copy(commitment) ==
    [i \in 1..CommitmentLen |-> IF i < CommitmentLen THEN commitment[i] ELSE 0]

\* commitment.try_into(): Vec<u8> -> [u8; 32]
commitment_arr(commitment) == [i \in 1..CommitmentLen |-> commitment[i]]

\* HashMap::insert: a later value replaces an earlier one under the same key
insert(map, key, value) == (key :> value) @@ map

get_payment(claim_id) ==
    IF claim_id \in DOMAIN payments THEN Some(payments[claim_id]) ELSE None

get_receipt(payroll_id) ==
    IF payroll_id \in DOMAIN receipts THEN Some(receipts[payroll_id]) ELSE None

is_nonce_used(authorizer_id, nonce) ==
    IF contract = "PayrollAttestation"
    THEN nonce_key(authorizer_id, nonce) \in used_receipt_nonces
    ELSE <<authorizer_id, nonce>> \in used_nonces

----------------------------------------------------------------------------
(* Construction *)

\* PayrollAttestation::new(allowed_caller: String)
Attestation_new(deployer, arg) ==
    /\ contract = "PayrollAttestation"
    /\ constructed_by = deployer
    /\ owner_id = deployer
    /\ allowed_caller = (IF arg = "" THEN None ELSE Some(arg))
    /\ payments = <<>>
    /\ receipts = <<>>
    /\ used_receipt_nonces = {}
    /\ used_nonces = {}

\* PayrollReceiptLogger::new(allowed_caller: Option<String>)
Logger_new(deployer, arg) ==
    /\ contract = "PayrollReceiptLogger"
    /\ constructed_by = deployer
    /\ owner_id = deployer
    /\ allowed_caller = arg
    /\ payments = <<>>
    /\ receipts = <<>>
    /\ used_receipt_nonces = {}
    /\ used_nonces = {}

Init ==
    /\ block_timestamp = 1
    /\ logger = None
    /\ \/ \E d \in Accounts, s \in {""} \cup Accounts : Attestation_new(d, s)
       \/ \E d \in Accounts, o \in CallerOptions : Logger_new(d, o)

----------------------------------------------------------------------------
(* Calls *)

\* faulty variant: the claim_id check is made before the length check
record_payment_result_dup_first(caller, claim_id, commitment) ==
    IF ~CallerAllowed(caller) THEN "Unauthorized"
    ELSE IF claim_id \in DOMAIN payments THEN "DuplicateClaim"
    ELSE IF Len(commitment) # CommitmentLen THEN "InvalidCommitment"
    ELSE "ok"

\* faulty variant: only a commitment that is too short is refused
record_payment_result_min_len(caller, claim_id, commitment) ==
    IF ~CallerAllowed(caller) THEN "Unauthorized"
    ELSE IF Len(commitment) < CommitmentLen THEN "InvalidCommitment"
    ELSE IF claim_id \in DOMAIN payments THEN "DuplicateClaim"
    ELSE "ok"

\* faulty variant: no contains_key check, so insert replaces the stored record
record_payment_result_no_dup_check(caller, claim_id, commitment) ==
    IF ~CallerAllowed(caller) THEN "Unauthorized"
    ELSE IF Len(commitment) # CommitmentLen THEN "InvalidCommitment"
    ELSE "ok"

\* the asserts of record_payment, in their order
record_payment_result(caller, claim_id, commitment) ==
    IF ~CallerAllowed(caller) THEN "Unauthorized"
    ELSE IF Len(commitment) # CommitmentLen THEN "InvalidCommitment"
    ELSE IF claim_id \in DOMAIN payments THEN "DuplicateClaim"
    ELSE "ok"

record_payment(caller, claim_id, execution_ref, commitment) ==
    /\ contract = "PayrollAttestation"
    /\ LET result == record_payment_result(caller, claim_id, commitment)
       IN /\ payments' =
                IF result = "ok"
                THEN insert(payments, claim_id,
                        [claim_id |-> claim_id,
                         execution_ref |-> execution_ref,
                         commitment |-> commitment_arr(commitment),
                         timestamp_nanos |-> block_timestamp])
                ELSE payments
    /\ UNCHANGED <<contract, owner_id, allowed_caller, receipts,
                   used_receipt_nonces, used_nonces, block_timestamp>>

\* faulty variant: gated by allowed_caller instead of owner_id
set_allowed_caller_result_by_allowed(caller) ==
    IF CallerAllowed(caller) THEN "ok" ELSE "Unauthorized"

\* assert_eq!(env::predecessor_account_id(), self.owner_id)
set_allowed_caller_result(caller) ==
    IF caller = owner_id THEN "ok" ELSE "Unauthorized"

\* faulty variant: the given account is written to owner_id as well
set_allowed_caller_moves_owner(caller, account_id) ==
    /\ LET result == set_allowed_caller_result(caller)
       IN /\ allowed_caller' = IF result = "ok" THEN account_id ELSE allowed_caller
          /\ owner_id' = IF result = "ok" /\ account_id # None
                         THEN account_id[1] ELSE owner_id
    /\ UNCHANGED <<contract, payments, receipts,
                   used_receipt_nonces, used_nonces, block_timestamp>>

\* faulty variant: the owner's call rebuilds the contract state as new does
set_allowed_caller_rebuilds(caller, account_id) ==
    /\ LET result == set_allowed_caller_result(caller)
       IN /\ allowed_caller' = IF result = "ok" THEN account_id ELSE allowed_caller
          /\ payments' = IF result = "ok" THEN <<>> ELSE payments
          /\ receipts' = IF result = "ok" THEN <<>> ELSE receipts
          /\ used_receipt_nonces' = IF result = "ok" THEN {} ELSE used_receipt_nonces
          /\ used_nonces' = IF result = "ok" THEN {} ELSE used_nonces
    /\ UNCHANGED <<contract, owner_id, block_timestamp>>

set_allowed_caller(caller, account_id) ==
    /\ LET result == set_allowed_caller_result(caller)
       IN /\ allowed_caller' = IF result = "ok" THEN account_id ELSE allowed_caller
    /\ UNCHANGED <<contract, owner_id, payments, receipts,
                   used_receipt_nonces, used_nonces, block_timestamp>>

\* faulty variant: the two hash fields are filled from each other's argument
ReceiptRecord_swapped_hashes(payroll_id, batch_hash, authorizer_id, nonce, executor_id, status, tx_refs_hash) ==
    [payroll_id |-> payroll_id, batch_hash |-> tx_refs_hash,
     authorizer_id |-> authorizer_id, nonce |-> nonce,
     executor_id |-> executor_id, status |-> status,
     tx_refs_hash |-> batch_hash, timestamp_nanos |-> block_timestamp]

\* ReceiptRecord { .. } / Receipt { .. } with timestamp_nanos = env::block_timestamp()
ReceiptRecord(payroll_id, batch_hash, authorizer_id, nonce, executor_id, status, tx_refs_hash) ==
    [payroll_id |-> payroll_id, batch_hash |-> batch_hash,
     authorizer_id |-> authorizer_id, nonce |-> nonce,
     executor_id |-> executor_id, status |-> status,
     tx_refs_hash |-> tx_refs_hash, timestamp_nanos |-> block_timestamp]

\* faulty variant: the nonce ledger is not consulted
Attestation_record_receipt_result_no_nonce_check(caller, payroll_id, authorizer_id, nonce) ==
    IF ~CallerAllowed(caller) THEN "Unauthorized"
    ELSE IF payroll_id \in DOMAIN receipts THEN "noop"
    ELSE "ok"

\* faulty variant: the nonce ledger is consulted before the early return
Attestation_record_receipt_result_nonce_first(caller, payroll_id, authorizer_id, nonce) ==
    IF ~CallerAllowed(caller) THEN "Unauthorized"
    ELSE IF nonce_key(authorizer_id, nonce) \in used_receipt_nonces THEN "NonceReused"
    ELSE IF payroll_id \in DOMAIN receipts THEN "noop"
    ELSE "ok"

\* PayrollAttestation::record_receipt: "noop" is the early return, "ok" the write;
\* both return () to the caller.
Attestation_record_receipt_result(caller, payroll_id, authorizer_id, nonce) ==
    IF ~CallerAllowed(caller) THEN "Unauthorized"
    ELSE IF payroll_id \in DOMAIN receipts THEN "noop"
    ELSE IF nonce_key(authorizer_id, nonce) \in used_receipt_nonces THEN "NonceReused"
    ELSE "ok"

\* faulty variant: the receipt is stored but its nonce key is never inserted
Attestation_record_receipt_no_ledger_insert(caller, payroll_id, batch_hash, authorizer_id, nonce, executor_id, status, tx_refs_hash) ==
    /\ contract = "PayrollAttestation"
    /\ LET result == Attestation_record_receipt_result(caller, payroll_id, authorizer_id, nonce)
       IN /\ receipts' =
                IF result = "ok"
                THEN insert(receipts, payroll_id,
                        ReceiptRecord(payroll_id, batch_hash, authorizer_id, nonce,
                                      executor_id, status, tx_refs_hash))
                ELSE receipts
    /\ UNCHANGED <<contract, owner_id, allowed_caller, payments, used_receipt_nonces,
                   used_nonces, block_timestamp>>

Attestation_record_receipt(caller, payroll_id, batch_hash, authorizer_id, nonce, executor_id, status, tx_refs_hash) ==
    /\ contract = "PayrollAttestation"
    /\ LET result == Attestation_record_receipt_result(caller, payroll_id, authorizer_id, nonce)
       IN /\ receipts' =
                IF result = "ok"
                THEN insert(receipts, payroll_id,
                        ReceiptRecord(payroll_id, batch_hash, authorizer_id, nonce,
                                      executor_id, status, tx_refs_hash))
                ELSE receipts
          /\ used_receipt_nonces' =
                IF result = "ok"
                THEN used_receipt_nonces \cup {nonce_key(authorizer_id, nonce)}
                ELSE used_receipt_nonces
    /\ UNCHANGED <<contract, owner_id, allowed_caller, payments, used_nonces,
                   block_timestamp>>

\* faulty variant: used_nonces is not consulted
Logger_record_receipt_result_no_nonce_check(caller, payroll_id, authorizer_id, nonce) ==
    IF ~CallerAllowed(caller) THEN "Unauthorized"
    ELSE IF payroll_id \in DOMAIN receipts THEN "DuplicateReceipt"
    ELSE "ok"

\* faulty variant: no contains_key check, so insert replaces the stored receipt
Logger_record_receipt_result_no_dup_check(caller, payroll_id, authorizer_id, nonce) ==
    IF ~CallerAllowed(caller) THEN "Unauthorized"
    ELSE IF <<authorizer_id, nonce>> \in used_nonces THEN "NonceReused"
    ELSE "ok"

\* faulty variant: used_nonces is consulted before the payroll_id
Logger_record_receipt_result_nonce_first(caller, payroll_id, authorizer_id, nonce) ==
    IF ~CallerAllowed(caller) THEN "Unauthorized"
    ELSE IF <<authorizer_id, nonce>> \in used_nonces THEN "NonceReused"
    ELSE IF payroll_id \in DOMAIN receipts THEN "DuplicateReceipt"
    ELSE "ok"

\* PayrollReceiptLogger::record_receipt: the asserts, in their order
Logger_record_receipt_result(caller, payroll_id, authorizer_id, nonce) ==
    IF ~CallerAllowed(caller) THEN "Unauthorized"
    ELSE IF payroll_id \in DOMAIN receipts THEN "DuplicateReceipt"
    ELSE IF <<authorizer_id, nonce>> \in used_nonces THEN "NonceReused"
    ELSE "ok"

\* faulty variant: the receipt is stored but its pair never enters used_nonces
Logger_record_receipt_no_ledger_insert(caller, payroll_id, batch_hash, authorizer_id, nonce, executor_id, status, tx_refs_hash) ==
    /\ contract = "PayrollReceiptLogger"
    /\ LET result == Logger_record_receipt_result(caller, payroll_id, authorizer_id, nonce)
       IN /\ receipts' =
                IF result = "ok"
                THEN insert(receipts, payroll_id,
                        ReceiptRecord(payroll_id, batch_hash, authorizer_id, nonce,
                                      executor_id, status, tx_refs_hash))
                ELSE receipts
    /\ UNCHANGED <<contract, owner_id, allowed_caller, payments, used_receipt_nonces,
                   used_nonces, block_timestamp>>

Logger_record_receipt(caller, payroll_id, batch_hash, authorizer_id, nonce, executor_id, status, tx_refs_hash) ==
    /\ contract = "PayrollReceiptLogger"
    /\ LET result == Logger_record_receipt_result(caller, payroll_id, authorizer_id, nonce)
           key == <<authorizer_id, nonce>>
       IN /\ receipts' =
                IF result = "ok"
                THEN insert(receipts, payroll_id,
                        ReceiptRecord(payroll_id, batch_hash, key[1], key[2],
                                      executor_id, status, tx_refs_hash))
                ELSE receipts
          /\ used_nonces' = IF result = "ok" THEN used_nonces \cup {key} ELSE used_nonces
    /\ UNCHANGED <<contract, owner_id, allowed_caller, payments, used_receipt_nonces,
                   block_timestamp>>

\* record_receipt of whichever contract this instance is
record_receipt_result(caller, payroll_id, authorizer_id, nonce) ==
    IF contract = "PayrollAttestation"
    THEN Attestation_record_receipt_result(caller, payroll_id, authorizer_id, nonce)
    ELSE Logger_record_receipt_result(caller, payroll_id, authorizer_id, nonce)

record_receipt(caller, payroll_id, batch_hash, authorizer_id, nonce, executor_id, status, tx_refs_hash) ==
    \/ Attestation_record_receipt(caller, payroll_id, batch_hash, authorizer_id,
                                  nonce, executor_id, status, tx_refs_hash)
    \/ Logger_record_receipt(caller, payroll_id, batch_hash, authorizer_id,
                             nonce, executor_id, status, tx_refs_hash)

\* The lookups take &self and hold no assert: a call returns get_payment(..),
\* get_receipt(..) or is_nonce_used(..) of the current state and writes nothing.
call_get_payment(caller, claim_id) ==
    /\ contract = "PayrollAttestation"
    /\ UNCHANGED vars

\* faulty variant: the lookup is put behind the allowed_caller check
call_get_receipt_restricted(caller, payroll_id) ==
    /\ CallerAllowed(caller)
    /\ UNCHANGED vars

call_get_receipt(caller, payroll_id) ==
    UNCHANGED vars

call_is_nonce_used(caller, authorizer_id, nonce) ==
    UNCHANGED vars

\* the chain moves on: env::block_timestamp() grows between calls
NextBlock ==
    /\ block_timestamp < MaxTime
    /\ block_timestamp' = block_timestamp + 1
    /\ UNCHANGED <<contract, owner_id, allowed_caller, payments, receipts,
                   used_receipt_nonces, used_nonces>>

\* one contract on its own: the side-by-side logger is not there
Alone == UNCHANGED <<constructed_by, logger>>

Next ==
    \/ \E caller \in Accounts, claim_id \in ClaimIds, execution_ref \in ExecutionRefs,
          commitment \in Commitments :
          record_payment(caller, claim_id, execution_ref, commitment) /\ Alone
    \/ \E caller \in Accounts, account_id \in CallerOptions :
          set_allowed_caller(caller, account_id) /\ Alone
    \/ \E caller \in Accounts, payroll_id \in PayrollIds, batch_hash \in BatchHashes,
          authorizer_id \in Authorizers, nonce \in Nonces, executor_id \in Executors,
          status \in Statuses, tx_refs_hash \in TxRefsHashes :
          Attestation_record_receipt(caller, payroll_id, batch_hash, authorizer_id,
                                     nonce, executor_id, status, tx_refs_hash) /\ Alone
    \/ \E caller \in Accounts, payroll_id \in PayrollIds, batch_hash \in BatchHashes,
          authorizer_id \in Authorizers, nonce \in Nonces, executor_id \in Executors,
          status \in Statuses, tx_refs_hash \in TxRefsHashes :
          Logger_record_receipt(caller, payroll_id, batch_hash, authorizer_id,
                                nonce, executor_id, status, tx_refs_hash) /\ Alone
    \/ \E caller \in Accounts, claim_id \in ClaimIds :
          call_get_payment(caller, claim_id)
    \/ \E caller \in Accounts, payroll_id \in PayrollIds :
          call_get_receipt(caller, payroll_id)
    \/ \E caller \in Accounts, authorizer_id \in Authorizers, nonce \in Nonces :
          call_is_nonce_used(caller, authorizer_id, nonce)
    \/ NextBlock /\ Alone

Spec == Init /\ [][Next]_vars


----------------------------------------------------------------------------
(* The two contracts side by side: the variables above are the PayrollAttestation, *)
(* logger is a PayrollReceiptLogger deployed by the same account with the same     *)
(* access policy; every call goes to both, in the same block.                      *)

\* PayrollReceiptLogger::new
Twin_new(deployer, arg) ==
    [owner_id |-> deployer, allowed_caller |-> arg,
     receipts |-> <<>>, used_nonces |-> {}]

\* PayrollReceiptLogger::record_receipt: the asserts, in their order
Twin_record_receipt_result(self, caller, payroll_id, authorizer_id, nonce) ==
    IF self.allowed_caller # None /\ self.allowed_caller # Some(caller) THEN "Unauthorized"
    ELSE IF payroll_id \in DOMAIN self.receipts THEN "DuplicateReceipt"
    ELSE IF <<authorizer_id, nonce>> \in self.used_nonces THEN "NonceReused"
    ELSE "ok"

\* PayrollReceiptLogger::record_receipt: the state it leaves
Twin_record_receipt(self, caller, payroll_id, batch_hash, authorizer_id, nonce, executor_id, status, tx_refs_hash) ==
    IF Twin_record_receipt_result(self, caller, payroll_id, authorizer_id, nonce) = "ok"
    THEN [self EXCEPT
            !.receipts = insert(@, payroll_id,
                            ReceiptRecord(payroll_id, batch_hash, authorizer_id, nonce,
                                          executor_id, status, tx_refs_hash)),
            !.used_nonces = @ \cup {<<authorizer_id, nonce>>}]
    ELSE self

\* PayrollReceiptLogger::set_allowed_caller
Twin_set_allowed_caller_result(self, caller) ==
    IF caller = self.owner_id THEN "ok" ELSE "Unauthorized"

Twin_set_allowed_caller(self, caller, account_id) ==
    IF Twin_set_allowed_caller_result(self, caller) = "ok"
    THEN [self EXCEPT !.allowed_caller = account_id]
    ELSE self

InitPair ==
    /\ block_timestamp = 1
    /\ \E d \in Accounts, s \in {""} \cup Accounts :
          /\ Attestation_new(d, s)
          /\ logger = Twin_new(d, IF s = "" THEN None ELSE Some(s))

Pair_record_receipt(caller, payroll_id, batch_hash, authorizer_id, nonce, executor_id, status, tx_refs_hash) ==
    /\ Attestation_record_receipt(caller, payroll_id, batch_hash, authorizer_id,
                                  nonce, executor_id, status, tx_refs_hash)
    /\ logger' = Twin_record_receipt(logger, caller, payroll_id, batch_hash,
                                     authorizer_id, nonce, executor_id, status,
                                     tx_refs_hash)
    /\ UNCHANGED constructed_by

Pair_set_allowed_caller(caller, account_id) ==
    /\ set_allowed_caller(caller, account_id)
    /\ logger' = Twin_set_allowed_caller(logger, caller, account_id)
    /\ UNCHANGED constructed_by

Pair_NextBlock ==
    /\ NextBlock
    /\ UNCHANGED <<constructed_by, logger>>

NextPair ==
    \/ \E caller \in Accounts, payroll_id \in PayrollIds, batch_hash \in BatchHashes,
          authorizer_id \in Authorizers, nonce \in Nonces, executor_id \in Executors,
          status \in Statuses, tx_refs_hash \in TxRefsHashes :
          Pair_record_receipt(caller, payroll_id, batch_hash, authorizer_id,
                              nonce, executor_id, status, tx_refs_hash)
    \/ \E caller \in Accounts, account_id \in CallerOptions :
          Pair_set_allowed_caller(caller, account_id)
    \/ Pair_NextBlock

SpecPair == InitPair /\ [][NextPair]_vars

----------------------------------------------------------------------------
(* Properties *)

PairOf(r) == <<r.authorizer_id, r.nonce>>

\* some stored receipt carries the pair: a record_receipt using it has succeeded
PairRecorded(authorizer_id, nonce) ==
    \E q \in DOMAIN receipts : PairOf(receipts[q]) = <<authorizer_id, nonce>>

\* allowed_caller is set, and to somebody else than caller
SetToAnother(caller) ==
    allowed_caller # None /\ allowed_caller # Some(caller)

\* C1: in every reachable state of either contract, no two stored receipts with
\* different payroll_id carry the same (authorizer_id, nonce) pair.
C1_NonceUniqueness ==
    \A p \in DOMAIN receipts, q \in DOMAIN receipts :
        p # q => PairOf(receipts[p]) # PairOf(receipts[q])

\* two receipts of one authorizer are stored, under different nonces
C1_Witness ==
    /\ contract = "PayrollReceiptLogger"
    /\ DOMAIN receipts = PayrollIds
    /\ receipts["p1"].authorizer_id = receipts["p2"].authorizer_id

\* C2 (as claimed): once a receipt using (authorizer_id, nonce) is stored, every
\* record_receipt that passes the access check and uses the pair fails with
\* NonceReused, whatever its payroll_id.
C2_NonceReusedWhateverPayrollId ==
    \A caller \in Accounts, p \in PayrollIds, a \in Authorizers, n \in Nonces :
        (PairRecorded(a, n) /\ CallerAllowed(caller))
            => record_receipt_result(caller, p, a, n) = "NonceReused"

\* C2 (amended): such a call fails with NonceReused when its payroll_id has no
\* receipt; when the payroll_id already has one the nonce check is not reached:
\* PayrollAttestation returns silently, PayrollReceiptLogger fails with
\* DuplicateReceipt.
C2_NonceReusedOnNewPayrollId ==
    \A caller \in Accounts, p \in PayrollIds, a \in Authorizers, n \in Nonces :
        (PairRecorded(a, n) /\ CallerAllowed(caller))
            => record_receipt_result(caller, p, a, n) =
                 (IF p \notin DOMAIN receipts THEN "NonceReused"
                  ELSE IF contract = "PayrollAttestation" THEN "noop"
                  ELSE "DuplicateReceipt")

\* a pair is spent, another payroll_id is still free, and somebody may call
C2_Witness ==
    /\ contract = "PayrollAttestation"
    /\ DOMAIN receipts = {"p1"}
    /\ PairRecorded("a::1", 11)
    /\ allowed_caller = Some("alice")

\* C3 (as claimed): a second record_payment on a stored claim_id, with any
\* arguments, from a caller that passes the access check, fails with DuplicateClaim.
C3_DuplicateClaimAnyArguments ==
    \A caller \in Accounts, c \in DOMAIN payments, k \in Commitments :
        CallerAllowed(caller) => record_payment_result(caller, c, k) = "DuplicateClaim"

C3_SecondCallResult ==
    \A caller \in Accounts, c \in DOMAIN payments, k \in Commitments :
        CallerAllowed(caller)
            => record_payment_result(caller, c, k) =
                 (IF Len(k) = CommitmentLen THEN "DuplicateClaim" ELSE "InvalidCommitment")

C3_FirstRecordKept ==
    \A c \in DOMAIN payments :
        \/ get_payment(c)' = get_payment(c)
        \/ ~ \E caller \in Accounts, e \in ExecutionRefs, k \in Commitments :
                record_payment(caller, c, e, k)

\* C3 (amended): the second call fails with DuplicateClaim when its commitment has
\* 32 bytes and with InvalidCommitment otherwise (the length is checked first);
\* either way get_payment(claim_id) still returns the first record.
C3_DuplicateClaimOn32Bytes ==
    []C3_SecondCallResult /\ [][C3_FirstRecordKept]_vars

\* a claim is stored and a caller other than the one who may have stored it passes
C3_Witness ==
    /\ "c1" \in DOMAIN payments
    /\ payments["c1"].commitment = Bytes(CommitmentLen, 7)
    /\ allowed_caller = None

C4_Unauthorized ==
    \A caller \in Accounts :
        SetToAnother(caller) =>
            /\ \A p \in PayrollIds, a \in Authorizers, n \in Nonces :
                   record_receipt_result(caller, p, a, n) = "Unauthorized"
            /\ contract = "PayrollAttestation" =>
                   \A c \in ClaimIds, k \in Commitments :
                       record_payment_result(caller, c, k) = "Unauthorized"

C4_NoStateChange ==
    \/ UNCHANGED store
    \/ \A caller \in Accounts :
           SetToAnother(caller) =>
               /\ ~ \E c \in ClaimIds, e \in ExecutionRefs, k \in Commitments :
                       record_payment(caller, c, e, k)
               /\ ~ \E p \in PayrollIds, b \in BatchHashes, a \in Authorizers,
                        n \in Nonces, x \in Executors, st \in Statuses,
                        t \in TxRefsHashes :
                       record_receipt(caller, p, b, a, n, x, st, t)

\* C4: while allowed_caller is set to A, every record_payment and record_receipt
\* from an identity other than A (the owner included) fails with Unauthorized,
\* whatever else is wrong with the call, and changes no state.
C4_AccessCheckFirst ==
    []C4_Unauthorized /\ [][C4_NoStateChange]_vars

\* alice is the allowed caller, bob the owner; a claim, a receipt and a nonce are
\* stored, so a call of bob's could also be a duplicate or reuse a nonce
C4_Witness ==
    /\ contract = "PayrollAttestation"
    /\ allowed_caller = Some("alice")
    /\ owner_id = "bob"
    /\ "c1" \in DOMAIN payments
    /\ "p1" \in DOMAIN receipts
    /\ is_nonce_used("a:", 1)

\* C5: whenever allowed_caller is None or the empty string, no record_payment or
\* record_receipt is refused as Unauthorized, whoever calls.
C5_EmptyMeansUnrestricted ==
    (allowed_caller = None \/ allowed_caller = Some(""))
        => \A caller \in Accounts :
              /\ \A p \in PayrollIds, a \in Authorizers, n \in Nonces :
                     record_receipt_result(caller, p, a, n) # "Unauthorized"
              /\ \A c \in ClaimIds, k \in Commitments :
                     record_payment_result(caller, c, k) # "Unauthorized"

C6_OwnerAlone ==
    \A caller \in Accounts :
        set_allowed_caller_result(caller) =
            (IF caller = owner_id THEN "ok" ELSE "Unauthorized")

C6_Replaces ==
    \/ allowed_caller' = allowed_caller
    \/ /\ \E caller \in Accounts, account_id \in CallerOptions :
              set_allowed_caller(caller, account_id)
       /\ \A caller \in Accounts, account_id \in CallerOptions :
              set_allowed_caller(caller, account_id) =>
                  /\ caller = owner_id
                  /\ allowed_caller' = account_id
                  /\ \A c \in Accounts :
                         CallerAllowed(c)' <=> (account_id = None \/ account_id = Some(c))

\* C6: set_allowed_caller fails with Unauthorized for every identity but owner_id
\* and then leaves allowed_caller as it was; for owner_id it succeeds whatever
\* allowed_caller is, installs the given value (None included), and the access
\* check of later calls reads that value only. Nothing else changes allowed_caller.
C6_SetAllowedCaller ==
    []C6_OwnerAlone /\ [][C6_Replaces]_vars

\* the owner, who was not the allowed caller, has installed a value that
\* PayrollAttestation::new cannot produce
C6_Witness ==
    /\ contract = "PayrollAttestation"
    /\ owner_id = "bob"
    /\ allowed_caller = Some("")
    /\ "p1" \in DOMAIN receipts

C7_Succeeds ==
    \A caller \in Accounts, c \in ClaimIds, k \in Commitments :
        (CallerAllowed(caller) /\ Len(k) = CommitmentLen /\ c \notin DOMAIN payments)
            => record_payment_result(caller, c, k) = "ok"

C7_RoundTrip ==
    \/ payments' = payments
    \/ /\ \A caller \in Accounts, c \in ClaimIds, e \in ExecutionRefs, k \in Commitments :
              (/\ CallerAllowed(caller)
               /\ Len(k) = CommitmentLen
               /\ c \notin DOMAIN payments
               /\ record_payment(caller, c, e, k))
                  => get_payment(c)' =
                       Some([claim_id |-> c, execution_ref |-> e, commitment |-> k,
                             timestamp_nanos |-> block_timestamp])
       /\ \A c \in ClaimIds :
              (get_payment(c) = None /\ get_payment(c)' # None)
                  => \E caller \in Accounts, e \in ExecutionRefs, k \in Commitments :
                        /\ record_payment(caller, c, e, k)
                        /\ record_payment_result(caller, c, k) = "ok"

\* C7: record_payment with a 32-byte commitment and a claim_id not yet stored, from
\* a caller that passes the access check, succeeds, and get_payment(claim_id) then
\* returns exactly the arguments and the block timestamp of the call; get_payment
\* of a claim_id that was never recorded is None.
C7_RecordThenGet ==
    /\ \A c \in ClaimIds : get_payment(c) = None
    /\ []C7_Succeeds
    /\ [][C7_RoundTrip]_vars

\* c2 was recorded in the second block with a commitment, c1 never
C7_Witness ==
    /\ get_payment("c1") = None
    /\ get_payment("c2") =
           Some([claim_id |-> "c2", execution_ref |-> "e1",
                 commitment |-> Bytes(CommitmentLen, 7), timestamp_nanos |-> 2])

C8_InvalidCommitment ==
    \A caller \in Accounts, c \in ClaimIds, k \in Commitments :
        (CallerAllowed(caller) /\ Len(k) # CommitmentLen)
            => record_payment_result(caller, c, k) = "InvalidCommitment"

C8_NoStateChange ==
    \/ UNCHANGED store
    \/ ~ \E caller \in Accounts, c \in ClaimIds, e \in ExecutionRefs, k \in Commitments :
            /\ CallerAllowed(caller)
            /\ Len(k) # CommitmentLen
            /\ record_payment(caller, c, e, k)

\* C8: record_payment with a commitment of any length but 32 (0, 31, 33), from a
\* caller that passes the access check, fails with InvalidCommitment, also when the
\* claim_id is already stored, and changes no state.
C8_WrongLength ==
    []C8_InvalidCommitment /\ [][C8_NoStateChange]_vars

\* bob passes the access check of a restricted store that already holds c1
C8_Witness ==
    /\ contract = "PayrollAttestation"
    /\ allowed_caller = Some("bob")
    /\ "c1" \in DOMAIN payments

C9_Step ==
    /\ used_receipt_nonces \subseteq used_receipt_nonces'
    /\ used_nonces \subseteq used_nonces'
    /\ \A a \in Authorizers, n \in Nonces :
          /\ is_nonce_used(a, n) => is_nonce_used(a, n)'
          /\ (~is_nonce_used(a, n) /\ is_nonce_used(a, n)')
                => \E caller \in Accounts, p \in PayrollIds, b \in BatchHashes,
                      x \in Executors, st \in Statuses, t \in TxRefsHashes :
                      /\ record_receipt(caller, p, b, a, n, x, st, t)
                      /\ record_receipt_result(caller, p, a, n) = "ok"
          /\ \/ receipts' = receipts
             \/ \A caller \in Accounts, p \in PayrollIds, b \in BatchHashes,
                   x \in Executors, st \in Statuses, t \in TxRefsHashes :
                   (/\ record_receipt(caller, p, b, a, n, x, st, t)
                    /\ record_receipt_result(caller, p, a, n) = "ok")
                       => is_nonce_used(a, n)'

\* C9: is_nonce_used(a, n) is false at construction and stays false until a
\* record_receipt using (a, n) records its receipt; that step makes it true, and
\* it is true in every later state: the nonce ledger only grows.
C9_UnusedThenSpent ==
    /\ \A a \in Authorizers, n \in Nonces : ~is_nonce_used(a, n)
    /\ [][C9_Step]_vars

\* one pair is spent while the other pair of the same nonce is not
C9_Witness ==
    /\ contract = "PayrollAttestation"
    /\ is_nonce_used("a::1", 11)
    /\ ~is_nonce_used("a:", 11)
    /\ DOMAIN receipts = PayrollIds

\* C10: once get_payment(claim_id) returns a record, it returns that same record
\* in every later state, whatever is called by whoever.
C10_PaymentImmutable ==
    [][\A c \in ClaimIds :
          get_payment(c) # None => get_payment(c)' = get_payment(c)]_vars

\* c1 was stored in the first block and is still there in the second, after c2
\* was recorded and the allowed caller was set
C10_Witness ==
    /\ block_timestamp = 2
    /\ "c1" \in DOMAIN payments
    /\ payments["c1"].timestamp_nanos = 1
    /\ "c2" \in DOMAIN payments
    /\ payments["c2"].timestamp_nanos = 2
    /\ allowed_caller = Some("")


\* C11: a payroll_id goes from absent to recorded only: once get_receipt(payroll_id)
\* returns a record it returns that same record, all fields and the timestamp, in
\* every later state of either contract, also after calls that reuse the payroll_id.
C11_ReceiptImmutable ==
    [][\A p \in PayrollIds :
          get_receipt(p) # None => get_receipt(p)' = get_receipt(p)]_vars

\* p1 was recorded in the first block and is unchanged in the second, next to a
\* receipt p2 of the other authorizer
C11_Witness ==
    /\ contract = "PayrollReceiptLogger"
    /\ block_timestamp = 2
    /\ DOMAIN receipts = PayrollIds
    /\ receipts["p1"].timestamp_nanos = 1
    /\ receipts["p2"].timestamp_nanos = 2
    /\ receipts["p1"].authorizer_id # receipts["p2"].authorizer_id

C12_ReturnsSilently ==
    contract = "PayrollAttestation" =>
        \A caller \in Accounts, p \in DOMAIN receipts, a \in Authorizers, n \in Nonces :
            CallerAllowed(caller)
                => Attestation_record_receipt_result(caller, p, a, n) = "noop"

C12_NoStateChange ==
    \/ UNCHANGED store
    \/ ~ \E caller \in Accounts, p \in DOMAIN receipts, b \in BatchHashes,
            a \in Authorizers, n \in Nonces, x \in Executors, st \in Statuses,
            t \in TxRefsHashes :
            /\ CallerAllowed(caller)
            /\ Attestation_record_receipt(caller, p, b, a, n, x, st, t)

\* C12: PayrollAttestation::record_receipt on a payroll_id that has a receipt, from
\* a caller that passes the access check, returns without error whatever the other
\* arguments are (a spent pair included) and changes nothing.
C12_SilentIdempotent ==
    []C12_ReturnsSilently /\ [][C12_NoStateChange]_vars

\* p1 is recorded, p2 is not; one pair is spent and the others are not
C12_Witness ==
    /\ contract = "PayrollAttestation"
    /\ DOMAIN receipts = {"p1"}
    /\ is_nonce_used("a:", 11)
    /\ allowed_caller = None

C13_DuplicateReceipt ==
    contract = "PayrollReceiptLogger" =>
        \A caller \in Accounts, p \in DOMAIN receipts, a \in Authorizers, n \in Nonces :
            CallerAllowed(caller)
                => Logger_record_receipt_result(caller, p, a, n) = "DuplicateReceipt"

C13_NoStateChange ==
    \/ UNCHANGED store
    \/ ~ \E caller \in Accounts, p \in DOMAIN receipts, b \in BatchHashes,
            a \in Authorizers, n \in Nonces, x \in Executors, st \in Statuses,
            t \in TxRefsHashes :
            /\ CallerAllowed(caller)
            /\ Logger_record_receipt(caller, p, b, a, n, x, st, t)

\* C13: PayrollReceiptLogger::record_receipt on a payroll_id that has a receipt,
\* from a caller that passes the access check, fails with DuplicateReceipt whether
\* its pair is spent or not, and changes nothing.
C13_Strict ==
    []C13_DuplicateReceipt /\ [][C13_NoStateChange]_vars

\* p1 is recorded with a spent pair, the other pairs are unused, bob may call
C13_Witness ==
    /\ contract = "PayrollReceiptLogger"
    /\ DOMAIN receipts = {"p1"}
    /\ is_nonce_used("a::1", 1)
    /\ allowed_caller = Some("bob")


\* the nonce ledger of this instance and the key a pair has in it
Ledger ==
    IF contract = "PayrollAttestation" THEN used_receipt_nonces ELSE used_nonces

LedgerKey(authorizer_id, nonce) ==
    IF contract = "PayrollAttestation"
    THEN nonce_key(authorizer_id, nonce)
    ELSE <<authorizer_id, nonce>>

\* every receipt has its ledger entry and every ledger entry its receipt
C14_Paired ==
    /\ \A p \in DOMAIN receipts :
          LedgerKey(receipts[p].authorizer_id, receipts[p].nonce) \in Ledger
    /\ \A k \in Ledger :
          \E p \in DOMAIN receipts :
              LedgerKey(receipts[p].authorizer_id, receipts[p].nonce) = k
    /\ Cardinality(Ledger) = Cardinality(DOMAIN receipts)

C14_Step ==
    \/ receipts' = receipts /\ Ledger' = Ledger
    \/ /\ \E caller \in Accounts, p \in PayrollIds, b \in BatchHashes,
             a \in Authorizers, n \in Nonces, x \in Executors, st \in Statuses,
             t \in TxRefsHashes :
             record_receipt(caller, p, b, a, n, x, st, t)
       /\ \A caller \in Accounts, p \in PayrollIds, b \in BatchHashes,
             a \in Authorizers, n \in Nonces, x \in Executors, st \in Statuses,
             t \in TxRefsHashes :
             record_receipt(caller, p, b, a, n, x, st, t) =>
                 /\ record_receipt_result(caller, p, a, n) = "ok"
                 /\ p \notin DOMAIN receipts
                 /\ DOMAIN receipts' = DOMAIN receipts \cup {p}
                 /\ \A q \in DOMAIN receipts : receipts'[q] = receipts[q]
                 /\ PairOf(receipts'[p]) = <<a, n>>
                 /\ LedgerKey(a, n) \notin Ledger
                 /\ Ledger' = Ledger \cup {LedgerKey(a, n)}

\* C14: a record_receipt that records adds exactly one receipt (its payroll_id) and
\* exactly one ledger entry (its pair) in the same step; a call that ends in
\* Unauthorized, DuplicateReceipt or NonceReused (or in the silent return) leaves
\* both as they were; in every state receipts and ledger entries are paired.
C14_AllOrNothing ==
    []C14_Paired /\ [][C14_Step]_vars

\* both payroll ids are recorded and the ledger holds their two pairs
C14_Witness ==
    /\ contract = "PayrollReceiptLogger"
    /\ DOMAIN receipts = PayrollIds
    /\ used_nonces = {<<"a:", 11>>, <<"a::1", 11>>}


C15_SucceedsIff ==
    allowed_caller = None =>
        \A caller \in Accounts, p \in PayrollIds \ DOMAIN receipts,
           a \in Authorizers, n \in Nonces :
            /\ record_receipt_result(caller, p, a, n) = "ok" <=> ~is_nonce_used(a, n)
            /\ PairRecorded(a, n) => record_receipt_result(caller, p, a, n) = "NonceReused"

C15_StoresArguments ==
    \/ receipts' = receipts
    \/ \A caller \in Accounts, p \in PayrollIds, b \in BatchHashes,
          a \in Authorizers, n \in Nonces, x \in Executors, st \in Statuses,
          t \in TxRefsHashes :
          (/\ allowed_caller = None
           /\ p \notin DOMAIN receipts
           /\ record_receipt(caller, p, b, a, n, x, st, t))
              => get_receipt(p)' =
                   Some([payroll_id |-> p, batch_hash |-> b, authorizer_id |-> a,
                         nonce |-> n, executor_id |-> x, status |-> st,
                         tx_refs_hash |-> t, timestamp_nanos |-> block_timestamp])

\* C15: while the store is unrestricted (allowed_caller is None), record_receipt on
\* a payroll_id without receipt succeeds exactly when its pair is not in the nonce
\* ledger; get_receipt(payroll_id) then returns the seven arguments and the block
\* timestamp of the call; with a pair spent under another payroll_id the call fails
\* with NonceReused and get_receipt(payroll_id) stays None.
C15_RecordThenGet ==
    []C15_SucceedsIff /\ [][C15_StoresArguments]_vars

\* p1 was recorded in the second block of an unrestricted store; p2 is still free
C15_Witness ==
    /\ contract = "PayrollAttestation"
    /\ allowed_caller = None
    /\ get_receipt("p2") = None
    /\ get_receipt("p1") =
           Some([payroll_id |-> "p1", batch_hash |-> "bh", authorizer_id |-> "a::1",
                 nonce |-> 1, executor_id |-> "exec1", status |-> "success",
                 tx_refs_hash |-> "th1", timestamp_nanos |-> 2])


C16_OwnerIsConstructor ==
    /\ owner_id = constructed_by
    /\ \A c \in Accounts :
          set_allowed_caller_result(c) = "ok" <=> c = constructed_by

\* C16: owner_id is the identity that called new, in the first state and in every
\* later one: no call changes it, so only the constructor ever passes the
\* set_allowed_caller check.
C16_OwnerFixed ==
    []C16_OwnerIsConstructor /\ [][owner_id' = owner_id]_vars

\* after payments, receipts and a set_allowed_caller of the owner
C16_Witness ==
    /\ contract = "PayrollAttestation"
    /\ owner_id = "alice"
    /\ allowed_caller = Some("")
    /\ "c1" \in DOMAIN payments
    /\ "p1" \in DOMAIN receipts
    /\ block_timestamp = 2


C17_NeverFails ==
    \A caller \in Accounts :
        /\ \A p \in PayrollIds : ENABLED call_get_receipt(caller, p)
        /\ \A a \in Authorizers, n \in Nonces : ENABLED call_is_nonce_used(caller, a, n)
        /\ contract = "PayrollAttestation" =>
               \A c \in ClaimIds : ENABLED call_get_payment(caller, c)

C17_Pure ==
    \/ UNCHANGED store
    \/ /\ ~ \E caller \in Accounts, c \in ClaimIds : call_get_payment(caller, c)
       /\ ~ \E caller \in Accounts, p \in PayrollIds : call_get_receipt(caller, p)
       /\ ~ \E caller \in Accounts, a \in Authorizers, n \in Nonces :
               call_is_nonce_used(caller, a, n)

\* C17: get_payment, get_receipt and is_nonce_used return for every caller under
\* every value of allowed_caller, and leave payments, receipts, the nonce ledger,
\* owner_id and allowed_caller as they were.
C17_LookupsUnrestricted ==
    []C17_NeverFails /\ [][C17_Pure]_vars

\* the store is restricted to alice, who is also the owner: bob is nobody here,
\* and there is something to look up
C17_Witness ==
    /\ contract = "PayrollAttestation"
    /\ allowed_caller = Some("alice")
    /\ owner_id = "alice"
    /\ get_payment("c1") # None
    /\ get_receipt("p1") # None
    /\ is_nonce_used("a:", 1)



\* authorizer ids and nonces whose keys could run into each other
ProbeAuthorizers == {"a", "a1", "a:", "a::", "a::1", "a::1:", "a::1::1", "a::11"}
ProbeNonces == {0, 1, 11, 111}

C19_KeyInjective ==
    \A a1 \in ProbeAuthorizers \cup Authorizers, a2 \in ProbeAuthorizers \cup Authorizers,
       n1 \in ProbeNonces \cup Nonces, n2 \in ProbeNonces \cup Nonces :
        nonce_key(a1, n1) = nonce_key(a2, n2) => a1 = a2 /\ n1 = n2

C19_LedgerIsReceiptPairs ==
    /\ \A a \in ProbeAuthorizers \cup Authorizers, n \in ProbeNonces \cup Nonces :
          is_nonce_used(a, n) <=> PairRecorded(a, n)
    /\ Cardinality(Ledger) = Cardinality(DOMAIN receipts)

\* C19: a pair (authorizer_id, nonce) is reported as used exactly when some stored
\* receipt carries it, the ledger has one entry per receipt, and the composed key
\* authorizer_id "::" nonce is the same for two pairs only when the pairs are the same.
C19_LedgerMatchesReceipts ==
    C19_KeyInjective /\ C19_LedgerIsReceiptPairs

\* an authorizer id that itself ends in the separator is spent with one nonce,
\* and the pair whose key text is close to it is still unused
C19_Witness ==
    /\ contract = "PayrollAttestation"
    /\ is_nonce_used("a:", 1)
    /\ ~is_nonce_used("a::1", 1)
    /\ Cardinality(DOMAIN receipts) = 2

\* the pairs the PayrollAttestation reports as spent
SpentPairs ==
    {k \in Authorizers \X Nonces : is_nonce_used(k[1], k[2])}

C18_SameState ==
    /\ logger.owner_id = owner_id
    /\ logger.allowed_caller = allowed_caller
    /\ logger.receipts = receipts
    /\ logger.used_nonces = SpentPairs
    /\ Cardinality(logger.used_nonces) = Cardinality(used_receipt_nonces)

C18_SameOutcome ==
    /\ \A caller \in Accounts, p \in PayrollIds, a \in Authorizers, n \in Nonces :
          LET here == Attestation_record_receipt_result(caller, p, a, n)
              there == Twin_record_receipt_result(logger, caller, p, a, n)
          IN IF CallerAllowed(caller) /\ p \in DOMAIN receipts
             THEN here = "noop" /\ there = "DuplicateReceipt"
             ELSE here = there
    /\ \A caller \in Accounts :
          set_allowed_caller_result(caller) = Twin_set_allowed_caller_result(logger, caller)

\* C18: a PayrollAttestation and a PayrollReceiptLogger built with the same owner
\* and access policy and given the same record_receipt and set_allowed_caller calls
\* in the same blocks hold the same receipts and the same spent pairs after every
\* step, and every call ends the same way in both, except that a permitted call on
\* a recorded payroll_id returns silently in the first and fails with
\* DuplicateReceipt in the second.
C18_SideBySide ==
    C18_SameState /\ C18_SameOutcome

\* both hold two receipts recorded in different blocks, under a restricted policy
C18_Witness ==
    /\ DOMAIN logger.receipts = PayrollIds
    /\ logger.receipts["p1"].timestamp_nanos # logger.receipts["p2"].timestamp_nanos
    /\ logger.allowed_caller = Some("bob")
    /\ logger.owner_id = "alice"


C20_record_payment_frame ==
    \A caller \in Accounts, claim_id \in ClaimIds, execution_ref \in ExecutionRefs,
       commitment \in Commitments :
        record_payment(caller, claim_id, execution_ref, commitment)
            => UNCHANGED <<receipts, used_receipt_nonces, owner_id, allowed_caller>>

C20_record_receipt_frame ==
    \A caller \in Accounts, payroll_id \in PayrollIds, batch_hash \in BatchHashes,
       authorizer_id \in Authorizers, nonce \in Nonces, executor_id \in Executors,
       status \in Statuses, tx_refs_hash \in TxRefsHashes :
        Attestation_record_receipt(caller, payroll_id, batch_hash, authorizer_id,
                                   nonce, executor_id, status, tx_refs_hash)
            => UNCHANGED <<payments, owner_id, allowed_caller>>

C20_set_allowed_caller_frame ==
    \A caller \in Accounts, account_id \in CallerOptions :
        set_allowed_caller(caller, account_id)
            => UNCHANGED <<payments, receipts, used_receipt_nonces, owner_id>>

\* C20: in PayrollAttestation a record_payment step, failed or not, leaves receipts,
\* the nonce ledger, owner_id and allowed_caller as they were; a record_receipt step
\* leaves payments, owner_id and allowed_caller; a set_allowed_caller step leaves
\* payments, receipts, the nonce ledger and owner_id.
C20_Frame ==
    [][\/ UNCHANGED store
       \/ contract # "PayrollAttestation"
       \/ /\ C20_record_payment_frame
          /\ C20_record_receipt_frame
          /\ C20_set_allowed_caller_frame]_vars

\* the owner has closed the contract to every caller after both attestations and
\* both receipts were recorded, and they are all still there
C20_Witness ==
    /\ contract = "PayrollAttestation"
    /\ owner_id = "bob"
    /\ allowed_caller = Some("")
    /\ DOMAIN payments = ClaimIds
    /\ DOMAIN receipts = PayrollIds
    /\ Cardinality(used_receipt_nonces) = 2

====
